---------------------------- MODULE Spec2Model ----------------------------
(***************************************************************************)
(* Model of webhook_receiver.py: the /webhook handler, the per-strategy    *)
(* optimization history (a CSV file rewritten through pandas on every      *)
(* append), the suggestion engine and the artifacts it writes.             *)
(*                                                                         *)
(* Numbers are integers counting hundredths (5.0 is 500, 0.1 is 10).  The  *)
(* inputs are multiples of 0.1, so the *1.1 and *0.9 scalings are exact.   *)
(* A float that is not-a-number is the value NaN below.  The timestamp     *)
(* column of the history and the text of the scripts around the four       *)
(* parameter values take no part in any selection and are left out.        *)
(***************************************************************************)
EXTENDS Integers, Sequences, FiniteSets, TLC

VARIABLES
    hist,       \* history CSV of each strategy: [exists, text]
    scripts,    \* optimization_results/{s}_{label}_suggested.pine
    summary,    \* optimization_results/{s}_suggestions.json
    sample,     \* optimization_results/{s}_sample.pine exists
    charts,     \* optimization_results/{s}_{kind}.png that exist
    raw,        \* strategies with a raw dump tradingview_data/{s}_{ts}.json
    errlog,     \* kinds of lines in tradingview_data/error_log.txt
    calls,      \* update_optimization_history calls made, per strategy
    last,       \* what the most recently finished request did
    pc,         \* position of each request thread in its handler
    req,        \* the body each request thread is handling
    loc,        \* locals of each request thread
    alone,      \* per strategy, the history its requests give run one by one
    overlap,    \* a strategy had two update calls in flight at once
    actor       \* strategy of the request that took the last step

vars == <<hist, scripts, summary, sample, charts, raw, errlog, calls, last,
          pc, req, loc, alone, overlap, actor>>

---------------------------------------------------------------------------
(* Bounds of the model *)

MaxCalls == 5
MaxCoerceCalls == 1
MaxIngressCalls == 3
NThreads == 2
MaxConcCalls == 2

---------------------------------------------------------------------------
(* Keys and names *)

MetricKeys == <<"total_return_pct", "win_rate", "profit_factor",
                "max_drawdown_pct", "total_trades">>

ParamKeys == <<"take_profit", "stop_loss", "trailing_stop", "trailing_activation">>

Columns == MetricKeys \o ParamKeys

ColumnSet == {Columns[i] : i \in 1..Len(Columns)}

Labels == {"best_return", "best_risk_adjusted", "exploratory"}

ChartKinds == {"parameter_analysis", "correlation_analysis"}

Strategies == {"A", "B"}

DefaultStrategy == "unknown_strategy"

StrategyNames == Strategies \cup {DefaultStrategy}

Threads == 1..NThreads

---------------------------------------------------------------------------
(* Python values: the result of float(x), or the int 0 of the defaults *)

NaN == [ty |-> "float", nan |-> TRUE, v |-> 0]

PyFloat(n) == [ty |-> "float", nan |-> FALSE, v |-> n]

PyInt(n) == [ty |-> "int", nan |-> FALSE, v |-> n]

Returned(x) == [ok |-> TRUE, exc |-> "", val |-> x]

Raised(e) == [ok |-> FALSE, exc |-> e, val |-> PyInt(0)]

(* JSON values of a request: t is the kind, v the number a numeric kind
   carries, inner the kind of the content of a nested {"value": ...} *)
Json(t, v) == [t |-> t, v |-> v, inner |-> ""]

Nested(t, v) == [t |-> "dictv", v |-> v, inner |-> t]

ScalarKinds == {"num", "hugeint", "str", "nanstr", "badstr", "null", "dict", "list"}

(* float(x) of Python *)
FloatOf(t, v) ==
    CASE t = "num" -> Returned(PyFloat(v))
      [] t = "str" -> Returned(PyFloat(v))
      [] t = "nanstr" -> Returned(NaN)
      [] t = "badstr" -> Raised("ValueError")
      [] t = "hugeint" -> Raised("OverflowError")
      [] OTHER -> Raised("TypeError")

(* one key of the loops of update_optimization_history *)
Coerce(m, key) ==
    IF key \notin DOMAIN m THEN Returned(PyInt(0))
    ELSE LET x == m[key]
         IN  IF x.t = "dictv" THEN FloatOf(x.inner, x.v)
             ELSE IF x.t \in {"num", "hugeint"} THEN FloatOf(x.t, x.v)
             ELSE LET r == FloatOf(x.t, x.v)
                  IN  IF r.ok \/ r.exc \notin {"ValueError", "TypeError"} THEN r
                      ELSE Returned(PyInt(0))

MappingOf(col, metrics, parameters) ==
    IF \E i \in 1..Len(MetricKeys) : MetricKeys[i] = col THEN metrics ELSE parameters

(* the row dict built by the two loops, or the first exception raised *)
FirstRaised(res, bad) ==
    res[Columns[CHOOSE i \in bad : \A j \in bad : i <= j]].exc

RowOf(res, bad) ==
    IF bad = {}
    THEN [ok |-> TRUE, exc |-> "", row |-> [c \in ColumnSet |-> res[c].val]]
    ELSE [ok |-> FALSE, exc |-> FirstRaised(res, bad),
          row |-> [c \in ColumnSet |-> PyInt(0)]]

Coerced(res) == RowOf(res, {i \in 1..Len(Columns) : ~res[Columns[i]].ok})

BuildRow(metrics, parameters) ==
    Coerced([c \in ColumnSet |-> Coerce(MappingOf(c, metrics, parameters), c)])

---------------------------------------------------------------------------
(* pandas: frames, CSV text *)

Num(x) == [nan |-> x.nan, v |-> x.v]

(* pd.DataFrame([row]) *)
FrameOfRow(row) ==
    [dtype |-> [c \in ColumnSet |-> IF row[c].ty = "int" THEN "int64" ELSE "float64"],
     rows |-> <<[c \in ColumnSet |-> Num(row[c])]>>]

(* pd.concat([a, b], ignore_index=True) *)
Concat(a, b) ==
    [dtype |-> [c \in ColumnSet |->
                  IF a.dtype[c] = "int64" /\ b.dtype[c] = "int64"
                  THEN "int64" ELSE "float64"],
     rows |-> a.rows \o b.rows]

(* one cell of DataFrame.to_csv: "0" for an int64 column, "0.0" for a
   float64 one, the empty string for NaN *)
CellText(dtype, x) ==
    IF dtype = "int64" THEN [form |-> "int", v |-> x.v]
    ELSE IF x.nan THEN [form |-> "empty", v |-> 0]
    ELSE [form |-> "float", v |-> x.v]

ToCsv(df) ==
    [i \in 1..Len(df.rows) |-> [c \in ColumnSet |-> CellText(df.dtype[c], df.rows[i][c])]]

(* pd.read_csv: a column is int64 when every cell reads as an integer *)
ReadCsv(text) ==
    [dtype |-> [c \in ColumnSet |->
                  IF \A i \in 1..Len(text) : text[i][c].form = "int"
                  THEN "int64" ELSE "float64"],
     rows |-> [i \in 1..Len(text) |->
                 [c \in ColumnSet |-> [nan |-> text[i][c].form = "empty",
                                       v |-> text[i][c].v]]]]

NoFile == [exists |-> FALSE, text |-> <<>>]

(* lines 131-136: what to_csv leaves in the history file, given what
   os.path.exists and read_csv saw (seen) *)
WriteHistory(file, seen, dfNew) ==
    IF seen.exists
    THEN [exists |-> TRUE, text |-> ToCsv(Concat(ReadCsv(seen.text), dfNew))]
    ELSE [exists |-> TRUE, text |-> ToCsv(dfNew)]

---------------------------------------------------------------------------
(* Extended numbers: what pandas compares in idxmax.  k is "nan", "ninf",
   "fin" or "pinf"; a finite one is n/d with d > 0 *)

PointOne == 10

Fin(n, d) == [k |-> "fin", n |-> n, d |-> d]

NotANumber == [k |-> "nan", n |-> 0, d |-> 1]

Infinite(sign) == [k |-> IF sign > 0 THEN "pinf" ELSE "ninf", n |-> 0, d |-> 1]

Plain(x) == IF x.nan THEN NotANumber ELSE Fin(x.v, 1)

(* line 163: profit_factor * win_rate / (max_drawdown_pct + 0.1), with the
   IEEE results of a division by zero *)
RiskAdjusted(pf, wr, dd) ==
    IF pf.nan \/ wr.nan \/ dd.nan THEN NotANumber
    ELSE LET n == pf.v * wr.v
             d == dd.v + PointOne
         IN  IF d = 0
             THEN IF n = 0 THEN NotANumber ELSE Infinite(n)
             ELSE IF d > 0 THEN Fin(n, d) ELSE Fin(-n, -d)

Rank(x) == CASE x.k = "ninf" -> 0 [] x.k = "fin" -> 1 [] x.k = "pinf" -> 2 [] OTHER -> -1

Less(a, b) ==
    IF a.k = "fin" /\ b.k = "fin" THEN a.n * b.d < b.n * a.d
    ELSE Rank(a) < Rank(b)

RECURSIVE ArgMaxLastFrom(_, _, _)
ArgMaxLastFrom(xs, i, best) ==
    IF i > Len(xs) THEN best
    ELSE IF xs[i].k = "nan" THEN ArgMaxLastFrom(xs, i + 1, best)
    ELSE IF best = 0 \/ ~Less(xs[i], xs[best]) THEN ArgMaxLastFrom(xs, i + 1, i)
    ELSE ArgMaxLastFrom(xs, i + 1, best)

RECURSIVE ArgMaxFrom(_, _, _)
ArgMaxFrom(xs, i, best) ==
    IF i > Len(xs) THEN best
    ELSE IF xs[i].k = "nan" THEN ArgMaxFrom(xs, i + 1, best)
    ELSE IF best = 0 \/ Less(xs[best], xs[i]) THEN ArgMaxFrom(xs, i + 1, i)
    ELSE ArgMaxFrom(xs, i + 1, best)

(* the mutant of IdxMax: the last of the maximal rows *)
IdxMaxLast(xs) == ArgMaxLastFrom(xs, 1, 0)

(* Series.idxmax(): the first position of the maximum, NaN skipped; 0 stands
   for the failure on a column that is all NaN *)
IdxMax(xs) == ArgMaxFrom(xs, 1, 0)

ReturnColumn(df) == [i \in 1..Len(df.rows) |-> Plain(df.rows[i]["total_return_pct"])]

RiskColumn(df) ==
    [i \in 1..Len(df.rows) |->
        RiskAdjusted(df.rows[i]["profit_factor"], df.rows[i]["win_rate"],
                     df.rows[i]["max_drawdown_pct"])]

ParamSet == {ParamKeys[i] : i \in 1..Len(ParamKeys)}

(* df.loc[idx, col]: a numpy scalar of the column's dtype *)
At(df, idx, col) ==
    [ty |-> IF df.dtype[col] = "int64" THEN "int" ELSE "float",
     nan |-> df.rows[idx][col].nan, v |-> df.rows[idx][col].v]

(* lines 167-180 *)
ParamsAt(df, idx) == [k \in ParamSet |-> At(df, idx, k)]

(* float(x) * 1.1 and float(x) * 0.9, in tenths *)
Times(x, tenths) == IF x.nan THEN NaN ELSE PyFloat((x.v * tenths) \div 10)

(* lines 184-185: the two scalings *)
Exploratory(best) ==
    [best EXCEPT !["take_profit"] = Times(best["take_profit"], 11),
                 !["stop_loss"] = Times(best["stop_loss"], 9)]

(* the mutant of Derive: no .copy(), the scalings land in best_return_params *)
DeriveAliased(best) == [best |-> Exploratory(best), expl |-> Exploratory(best)]

(* lines 183-185: best_return_params and the scaled copy of it *)
Derive(best) == [best |-> best, expl |-> Exploratory(best)]

TakeProfitDefault == 500
StopLossDefault == 300
TrailingStopDefault == 100
TrailingActivationDefault == 50

ScriptDefault(k) ==
    CASE k = "take_profit" -> PyFloat(TakeProfitDefault)
      [] k = "stop_loss" -> PyFloat(StopLossDefault)
      [] k = "trailing_stop" -> PyFloat(TrailingStopDefault)
      [] OTHER -> PyFloat(TrailingActivationDefault)

NoScript == [written |-> FALSE, values |-> [k \in ParamSet |-> PyInt(0)]]

(* generate_pine_script: the four values the template is filled with *)
Render(parameters) ==
    [written |-> TRUE,
     values |-> [k \in ParamSet |->
                   IF k \in DOMAIN parameters THEN parameters[k] ELSE ScriptDefault(k)]]

SummaryMetrics == {"total_return_pct", "win_rate", "profit_factor", "max_drawdown_pct"}

(* json.dump fails on a numpy.int64: every value the summary holds comes
   from one of these columns *)
Serializable(df) == \A c \in ParamSet \cup SummaryMetrics : df.dtype[c] = "float64"

NoSummary == [state |-> "none", data_points |-> 0,
              best_return |-> [k \in ParamSet |-> PyInt(0)],
              best_risk_adjusted |-> [k \in ParamSet |-> PyInt(0)],
              exploratory |-> [k \in ParamSet |-> PyInt(0)]]

MinRowsForSuggestions == 3
MinRowsForVisualization == 5

VizOutcomes == {"ok", "fails_at_once", "fails_after_first_chart"}

(* generate_visualization: every failure inside is caught and logged *)
ChartsOf(viz) ==
    [saved |-> CASE viz = "ok" -> ChartKinds
                 [] viz = "fails_after_first_chart" -> {"parameter_analysis"}
                 [] OTHER -> {},
     logged |-> viz # "ok"]

NoParams == [k \in ParamSet |-> PyInt(0)]

(* what a run of generate_optimization_suggestions that stops at `stage`
   has done *)
Outcome(stage, exc, n, bi, ri, best, risk, expl, viz, ch) ==
    [stage |-> stage, exc |-> exc, n |-> n, best_idx |-> bi, risk_idx |-> ri,
     best |-> best, risk |-> risk, expl |-> expl,
     vizCalled |-> viz, charts |-> ch]

NoCharts == [saved |-> {}, logged |-> FALSE]

(* generate_optimization_suggestions, lines 140-227, on the history file it
   finds.  stage: "sample" (too little data, the sample script is written
   and None returned), "idxmax" (a column with no number in it: raised before
   anything was written), "dump" (json.dump raised, the three scripts
   written and the summary file left truncated), "done" *)
Emit(df, bi, ri, pair, risk, called, ch) ==
    Outcome(IF Serializable(df) THEN "done" ELSE "dump",
            IF Serializable(df) THEN "" ELSE "TypeError",
            Len(df.rows), bi, ri, pair.best, risk, pair.expl, called, ch)

Select(df, bi, ri, viz) ==
    IF bi = 0 \/ ri = 0
    THEN Outcome("idxmax", "IdxMaxError", Len(df.rows), bi, ri, NoParams, NoParams,
                 NoParams, FALSE, NoCharts)
    ELSE Emit(df, bi, ri, Derive(ParamsAt(df, bi)), ParamsAt(df, ri),
              Len(df.rows) >= MinRowsForVisualization,
              IF Len(df.rows) >= MinRowsForVisualization THEN ChartsOf(viz) ELSE NoCharts)

SuggestFrom(df, viz) ==
    IF Len(df.rows) < MinRowsForSuggestions
    THEN Outcome("sample", "", Len(df.rows), 0, 0, NoParams, NoParams, NoParams,
                 FALSE, NoCharts)
    ELSE Select(df, IdxMax(ReturnColumn(df)), IdxMax(RiskColumn(df)), viz)

Suggest(file, viz) ==
    IF ~file.exists
    THEN Outcome("sample", "", 0, 0, 0, NoParams, NoParams, NoParams, FALSE, NoCharts)
    ELSE SuggestFrom(ReadCsv(file.text), viz)

---------------------------------------------------------------------------
(* Files *)

(* the mutant of HistoryFile: the strategy name is left out of the path *)
HistoryFileShared(s) == <<"tradingview_data", "", "optimization_history.csv">>

HistoryFile(s) == <<"tradingview_data", s, "optimization_history.csv">>

ScriptFile(s, label) == <<"optimization_results", s, label, "suggested.pine">>

SummaryFile(s) == <<"optimization_results", s, "suggestions.json">>

SampleFile(s) == <<"optimization_results", s, "sample.pine">>

ChartFile(s, kind) == <<"optimization_results", s, kind>>

HistoryFiles == {HistoryFile(s) : s \in StrategyNames}

ScriptFiles == {ScriptFile(s, l) : s \in StrategyNames, l \in Labels}

SummaryFiles == {SummaryFile(s) : s \in StrategyNames}

SampleFiles == {SampleFile(s) : s \in StrategyNames}

ChartFiles == {ChartFile(s, k) : s \in StrategyNames, k \in ChartKinds}

---------------------------------------------------------------------------
(* Request bodies *)

NoMapping == <<>>

Body(named, s, metrics, parameters) ==
    [nonempty |-> TRUE, named |-> named, strategy_name |-> s,
     metrics |-> metrics, parameters |-> parameters]

EmptyBody == [nonempty |-> FALSE, named |-> FALSE, strategy_name |-> "",
              metrics |-> NoMapping, parameters |-> NoMapping]

(* data.get('strategy_name', 'unknown_strategy') *)
StrategyOf(body) == IF body.named THEN body.strategy_name ELSE DefaultStrategy

Metrics(ret, wr, pf, dd, trades) ==
    [k \in {"total_return_pct", "win_rate", "profit_factor", "max_drawdown_pct",
            "total_trades"} |->
        CASE k = "total_return_pct" -> ret [] k = "win_rate" -> wr
          [] k = "profit_factor" -> pf [] k = "max_drawdown_pct" -> dd
          [] OTHER -> trades]

Parameters(tp, sl, ts, ta) ==
    [k \in ParamSet |->
        CASE k = "take_profit" -> tp [] k = "stop_loss" -> sl
          [] k = "trailing_stop" -> ts [] OTHER -> ta]

N(v) == Json("num", v)

(* the three observations of the worked example *)
MetricsOne == Metrics(N(1000), N(50), N(100), N(500), N(1000))
ParametersOne == Parameters(N(500), N(300), N(100), N(50))
MetricsTwo == Metrics(N(2000), N(60), N(200), N(400), N(1000))
ParametersTwo == Parameters(N(600), N(200), N(100), N(50))
MetricsThree == Metrics(N(1500), N(90), N(300), N(100), N(1000))
ParametersThree == Parameters(N(700), N(100), N(200), N(50))

(* the second observation again, sent as strings and nested values, with
   other parameters: it ties with it on both selections *)
MetricsTie == Metrics(Json("str", 2000), Nested("num", 60), Nested("str", 200),
                      N(400), Json("null", 0))
ParametersTie == Parameters(Nested("num", 800), Json("str", 400), N(300), N(70))

(* most keys absent or useless: they are stored as the int 0 *)
MetricsSparse == [k \in {"total_return_pct", "win_rate"} |->
                    IF k = "total_return_pct" THEN N(1000) ELSE Json("badstr", 0)]
ParametersSparse == [k \in {"take_profit", "stop_loss"} |->
                       IF k = "take_profit" THEN N(900) ELSE Json("dict", 0)]

(* no return, no profit, and a drawdown of -0.1 *)
MetricsVoid == Metrics(Json("nanstr", 0), N(50), N(0), N(-10), N(0))
ParametersVoid == Parameters(N(400), N(200), N(100), N(50))

(* a nested value that is no number *)
MetricsBad == Metrics(N(1000), Nested("badstr", 0), N(100), N(500), N(1000))

SeqBodies ==
    { Body(TRUE, "A", MetricsTwo, ParametersTwo),
      Body(TRUE, "A", MetricsThree, ParametersThree),
      Body(TRUE, "A", MetricsTie, ParametersTie),
      Body(TRUE, "A", MetricsSparse, ParametersSparse),
      Body(TRUE, "A", MetricsVoid, ParametersVoid) }

IngressBodies ==
    { Body(TRUE, "A", MetricsOne, ParametersOne),
      Body(TRUE, "A", MetricsTie, ParametersTie),
      Body(TRUE, "A", MetricsSparse, ParametersSparse),
      Body(TRUE, "B", MetricsTwo, ParametersTwo),
      Body(FALSE, "", MetricsThree, ParametersThree),
      Body(TRUE, "A", MetricsBad, ParametersOne),
      Body(TRUE, "A", NoMapping, ParametersOne),
      Body(TRUE, "A", MetricsOne, NoMapping),
      Body(FALSE, "", NoMapping, NoMapping),
      EmptyBody }

ConcBodies ==
    { Body(TRUE, s, MetricsOne, ParametersOne) : s \in Strategies } \cup
    { Body(TRUE, s, MetricsTwo, ParametersTwo) : s \in Strategies }

(* every kind of JSON value, bare and nested under "value" *)
RawValues ==
    { Json(t, 250) : t \in ScalarKinds } \cup { Nested(t, 250) : t \in ScalarKinds }

With(m, key, x) == [k \in DOMAIN m \cup {key} |-> IF k = key THEN x ELSE m[k]]

Without(m, key) == [k \in DOMAIN m \ {key} |-> m[k]]

CoerceBodies ==
    { Body(TRUE, "A", With(MetricsOne, MetricKeys[i], x), ParametersOne) :
        i \in 1..Len(MetricKeys), x \in RawValues } \cup
    { Body(TRUE, "A", MetricsOne, With(ParametersOne, ParamKeys[i], x)) :
        i \in 1..Len(ParamKeys), x \in RawValues } \cup
    { Body(TRUE, "A", Without(MetricsOne, MetricKeys[i]), ParametersOne) :
        i \in 1..Len(MetricKeys) } \cup
    { Body(TRUE, "A", MetricsOne, Without(ParametersOne, ParamKeys[i])) :
        i \in 1..Len(ParamKeys) }

---------------------------------------------------------------------------
(* State *)

NoOutcome == Outcome("none", "", 0, 0, 0, NoParams, NoParams, NoParams, FALSE, NoCharts)

NoRow == [c \in ColumnSet |-> PyInt(0)]

NoLast == [body |-> EmptyBody, strategy |-> "", status |-> 0, called |-> FALSE,
           raised |-> "", where |-> "", appended |-> FALSE, row |-> NoRow, before |-> NoFile,
           suggested |-> FALSE, read |-> NoFile, out |-> NoOutcome]

NoLocals == [row |-> NoRow, seen |-> NoFile, status |-> 0]

TotalCalls == calls["A"] + calls["B"] + calls[DefaultStrategy]

Init ==
    /\ hist = [f \in HistoryFiles |-> NoFile]
    /\ scripts = [f \in ScriptFiles |-> NoScript]
    /\ summary = [f \in SummaryFiles |-> NoSummary]
    /\ sample = [f \in SampleFiles |-> FALSE]
    /\ charts = {}
    /\ raw = {}
    /\ errlog = {}
    /\ calls = [s \in StrategyNames |-> 0]
    /\ last = NoLast
    /\ pc = [t \in Threads |-> "idle"]
    /\ req = [t \in Threads |-> EmptyBody]
    /\ loc = [t \in Threads |-> NoLocals]
    /\ alone = [s \in StrategyNames |-> NoFile]
    /\ overlap = [s \in StrategyNames |-> FALSE]
    /\ actor = ""

(* the summary json.dump is handed, and whether the file holds all of it
   ("written") or stops where json.dump raised ("truncated") *)
SummaryOf(out) ==
    [state |-> IF out.stage = "done" THEN "written" ELSE "truncated",
     data_points |-> out.n,
     best_return |-> out.best,
     best_risk_adjusted |-> out.risk,
     exploratory |-> out.expl]

ScriptsAfter(s, out) ==
    [f \in ScriptFiles |->
        CASE f = ScriptFile(s, "best_return") -> Render(out.best)
          [] f = ScriptFile(s, "best_risk_adjusted") -> Render(out.risk)
          [] f = ScriptFile(s, "exploratory") -> Render(out.expl)
          [] OTHER -> scripts[f]]

(* the files generate_optimization_suggestions(s) leaves, lines 147-225 *)
WriteArtifacts(s, out) ==
    /\ sample' = IF out.stage = "sample"
                 THEN [sample EXCEPT ![SampleFile(s)] = TRUE] ELSE sample
    /\ scripts' = IF out.stage \in {"dump", "done"} THEN ScriptsAfter(s, out) ELSE scripts
    /\ charts' = charts \cup {ChartFile(s, k) : k \in out.charts.saved}
    /\ summary' = IF out.stage \in {"dump", "done"}
                  THEN [summary EXCEPT ![SummaryFile(s)] = SummaryOf(out)] ELSE summary

(* the lines the request adds to error_log.txt *)
Logged(exc, out) ==
    (IF exc = "" THEN {} ELSE {exc}) \cup
    (IF out.charts.logged THEN {"Visualization error"} ELSE {})

(* the mutant of HasBoth: `or` for `and` *)
HasEither(body) == DOMAIN body.metrics # {} \/ DOMAIN body.parameters # {}

(* `if metrics and parameters`, line 50 *)
HasBoth(body) == DOMAIN body.metrics # {} /\ DOMAIN body.parameters # {}

---------------------------------------------------------------------------
(* One request handled from start to end, nothing else running: webhook,
   lines 22-72 *)

Respond(body, s, called, exc, appended, row, before, file, out) ==
    /\ actor' = s
    /\ raw' = IF body.nonempty THEN raw \cup {s} ELSE raw
    /\ calls' = IF called THEN [calls EXCEPT ![s] = @ + 1] ELSE calls
    /\ hist' = [hist EXCEPT ![HistoryFile(s)] = file]
    /\ alone' = [alone EXCEPT ![s] = file]
    /\ IF appended
       THEN WriteArtifacts(s, out)
       ELSE /\ sample' = IF body.nonempty /\ ~called
                         THEN [sample EXCEPT ![SampleFile(s)] = TRUE] ELSE sample
            /\ UNCHANGED <<scripts, charts, summary>>
    /\ errlog' = errlog \cup Logged(exc, out)
    /\ last' = [body |-> body, strategy |-> s,
                status |-> IF ~body.nonempty THEN 400
                           ELSE IF exc # "" THEN 500 ELSE 200,
                called |-> called,
                raised |-> exc,
                where |-> IF exc = "" THEN ""
                          ELSE IF appended THEN "generate_optimization_suggestions"
                          ELSE "update_optimization_history",
                appended |-> appended,
                row |-> row,
                before |-> before,
                suggested |-> appended,
                read |-> IF appended THEN file ELSE NoFile,
                out |-> out]
    /\ UNCHANGED <<pc, req, loc, overlap>>

Suggested(body, s, row, before, file, out) ==
    Respond(body, s, TRUE, out.exc, TRUE, row, before, file, out)

Appended(body, s, row, before, file, viz) ==
    Suggested(body, s, row, before, file, Suggest(file, viz))

Updated(body, s, built, before, viz) ==
    IF built.ok
    THEN Appended(body, s, built.row, before,
                  WriteHistory(before, before, FrameOfRow(built.row)), viz)
    ELSE Respond(body, s, TRUE, built.exc, FALSE, NoRow, before, before, NoOutcome)

Webhook(body, viz, maxCalls) ==
    /\ \A t \in Threads : pc[t] = "idle"
    /\ IF body.nonempty /\ HasBoth(body)
       THEN /\ TotalCalls < maxCalls
            /\ Updated(body, StrategyOf(body), BuildRow(body.metrics, body.parameters),
                       hist[HistoryFile(StrategyOf(body))], viz)
       ELSE Respond(body, StrategyOf(body), FALSE, "", FALSE, NoRow,
                    hist[HistoryFile(StrategyOf(body))],
                    hist[HistoryFile(StrategyOf(body))], NoOutcome)

---------------------------------------------------------------------------
(* Requests handled by threads of the server: the same handler, one file
   operation at a time *)

InUpdate(t, s) == pc[t] \in {"exists", "read", "write"} /\ StrategyOf(req[t]) = s

(* lines 25-47 and 86-128: the body is read, dumped and, when it has metrics
   and parameters, coerced into a row *)
Begin(t, body, maxCalls) ==
    LET s == StrategyOf(body)
        called == body.nonempty /\ HasBoth(body)
        built == BuildRow(body.metrics, body.parameters)
        go == called /\ built.ok
    IN  /\ pc[t] = "idle"
        /\ called => TotalCalls < maxCalls
        /\ actor' = s
        /\ req' = [req EXCEPT ![t] = body]
        /\ raw' = IF body.nonempty THEN raw \cup {s} ELSE raw
        /\ calls' = IF called THEN [calls EXCEPT ![s] = @ + 1] ELSE calls
        /\ pc' = [pc EXCEPT ![t] = IF go THEN "exists" ELSE "idle"]
        /\ loc' = [loc EXCEPT ![t] =
                     [row |-> IF go THEN built.row ELSE NoRow, seen |-> NoFile,
                      status |-> IF ~body.nonempty THEN 400
                                 ELSE IF called /\ ~built.ok THEN 500
                                 ELSE IF go THEN 0 ELSE 200]]
        /\ sample' = IF body.nonempty /\ ~called
                     THEN [sample EXCEPT ![SampleFile(s)] = TRUE] ELSE sample
        /\ errlog' = IF called /\ ~built.ok THEN errlog \cup {built.exc} ELSE errlog
        /\ overlap' = IF go /\ \E u \in Threads \ {t} : InUpdate(u, s)
                      THEN [overlap EXCEPT ![s] = TRUE] ELSE overlap
        /\ alone' = IF go
                    THEN [alone EXCEPT ![s] = WriteHistory(@, @, FrameOfRow(built.row))]
                    ELSE alone
        /\ UNCHANGED <<hist, scripts, summary, charts, last>>

(* os.path.exists(history_file), line 131 *)
Exists(t) ==
    LET s == StrategyOf(req[t])
        there == hist[HistoryFile(s)].exists
    IN  /\ pc[t] = "exists"
        /\ actor' = s
        /\ loc' = [loc EXCEPT ![t].seen = [exists |-> there, text |-> <<>>]]
        /\ pc' = [pc EXCEPT ![t] = IF there THEN "read" ELSE "write"]
        /\ UNCHANGED <<hist, scripts, summary, sample, charts, raw, errlog, calls,
                       last, req, alone, overlap>>

(* pd.read_csv(history_file), line 132 *)
Read(t) ==
    LET s == StrategyOf(req[t])
    IN  /\ pc[t] = "read"
        /\ actor' = s
        /\ loc' = [loc EXCEPT ![t].seen = hist[HistoryFile(s)]]
        /\ pc' = [pc EXCEPT ![t] = "write"]
        /\ UNCHANGED <<hist, scripts, summary, sample, charts, raw, errlog, calls,
                       last, req, alone, overlap>>

(* to_csv(history_file), lines 133-136 *)
Write(t) ==
    LET s == StrategyOf(req[t])
    IN  /\ pc[t] = "write"
        /\ actor' = s
        /\ hist' = [hist EXCEPT ![HistoryFile(s)] =
                      WriteHistory(@, loc[t].seen, FrameOfRow(loc[t].row))]
        /\ pc' = [pc EXCEPT ![t] = "suggest"]
        /\ UNCHANGED <<scripts, summary, sample, charts, raw, errlog, calls,
                       last, req, loc, alone, overlap>>

(* generate_optimization_suggestions and the response, lines 54-72 *)
Suggestions(t, viz) ==
    LET s == StrategyOf(req[t])
        out == Suggest(hist[HistoryFile(s)], viz)
    IN  /\ pc[t] = "suggest"
        /\ actor' = s
        /\ WriteArtifacts(s, out)
        /\ errlog' = errlog \cup Logged(out.exc, out)
        /\ loc' = [loc EXCEPT ![t].status = IF out.exc # "" THEN 500 ELSE 200]
        /\ pc' = [pc EXCEPT ![t] = "idle"]
        /\ UNCHANGED <<hist, raw, calls, last, req, alone, overlap>>

---------------------------------------------------------------------------
(* Specifications *)

(* the outcomes of charting, drawn when a History of n rows gets to charting *)
VizChoices(n) == IF n >= MinRowsForVisualization THEN VizOutcomes ELSE {"ok"}

RowsStored(body) == Len(hist[HistoryFile(StrategyOf(body))].text)

(* requests with metrics and parameters for one strategy, one after the other *)
Next ==
    \E body \in SeqBodies :
        \E viz \in VizChoices(RowsStored(body) + 1) : Webhook(body, viz, MaxCalls)

Spec == Init /\ [][Next]_vars

(* requests of every shape, one after the other *)
NextIngress ==
    \E body \in IngressBodies :
        \E viz \in VizChoices(RowsStored(body) + 1) : Webhook(body, viz, MaxIngressCalls)

SpecIngress == Init /\ [][NextIngress]_vars

(* one request, every kind of value under every key *)
NextCoerce ==
    \E body \in CoerceBodies :
        \E viz \in VizChoices(RowsStored(body) + 1) : Webhook(body, viz, MaxCoerceCalls)

SpecCoerce == Init /\ [][NextCoerce]_vars

(* requests handled by concurrent threads *)
NextConc ==
    \E t \in Threads :
        \/ \E body \in ConcBodies : Begin(t, body, MaxConcCalls)
        \/ Exists(t)
        \/ Read(t)
        \/ Write(t)
        \/ \E viz \in VizChoices(RowsStored(req[t])) : Suggestions(t, viz)

SpecConc == Init /\ [][NextConc]_vars

---------------------------------------------------------------------------
(* Properties *)

Idle == \A t \in Threads : pc[t] = "idle"

Rows(file) == ReadCsv(file.text).rows

Stored(s) == hist[HistoryFile(s)]

Produced == last.suggested /\ last.out.stage \in {"dump", "done"}

ScriptsWritten(s) == \A l \in Labels : scripts[ScriptFile(s, l)].written

(* C1: once every overlapping update_optimization_history call on a strategy
   has finished, its History holds one row per call: no Observation is
   dropped. *)
C1_NoAppendLost ==
    Idle => \A s \in Strategies : Len(Stored(s).text) = calls[s]

(* C2: under sequential use the History of a strategy has one row per
   update_optimization_history call made for it, the History before a call
   is a prefix of the History after it, and the last row is the Observation
   just appended, field for field. *)
C2_AppendOnly ==
    /\ \A s \in StrategyNames : Len(Stored(s).text) = calls[s]
    /\ last.called =>
         /\ Len(Rows(Stored(last.strategy))) = Len(Rows(last.before)) + 1
         /\ \A i \in 1..Len(Rows(last.before)) :
               Rows(Stored(last.strategy))[i] = Rows(last.before)[i]
         /\ \A c \in ColumnSet :
               Rows(Stored(last.strategy))[Len(Rows(Stored(last.strategy)))][c]
                  = Num(last.row[c])

(* C3: a suggestion computation yields nothing from a History shorter than 3
   and, from every History of 3 rows or more, completes and leaves the three
   scripts and the summary. *)
C3_SuggestionSetFromThreeRows ==
    last.suggested =>
        IF Len(last.read.text) < 3
        THEN last.out.stage = "sample"
        ELSE /\ last.out.stage = "done"
             /\ last.out.exc = ""
             /\ ScriptsWritten(last.strategy)
             /\ summary[SummaryFile(last.strategy)].state = "written"
             /\ summary[SummaryFile(last.strategy)].data_points = Len(last.read.text)

(* the numbers of a column that are numbers *)
IsFirstMaxOfReturn(rows, i) ==
    /\ i \in 1..Len(rows)
    /\ ~rows[i]["total_return_pct"].nan
    /\ \A j \in 1..Len(rows) :
          ~rows[j]["total_return_pct"].nan =>
              /\ rows[j]["total_return_pct"].v <= rows[i]["total_return_pct"].v
              /\ j < i => rows[j]["total_return_pct"].v < rows[i]["total_return_pct"].v

SameValues(params, row) ==
    \A k \in ParamSet : params[k].nan = row[k].nan /\ params[k].v = row[k].v

(* C4: whenever suggestions are produced, best_return_params are the four
   parameters of the first row whose total_return_pct is the maximum of the
   History, and the best_return script carries them. *)
C4_BestReturnIsFirstMaximum ==
    Produced =>
        /\ Len(last.read.text) >= 3
        /\ IsFirstMaxOfReturn(Rows(last.read), last.out.best_idx)
        /\ SameValues(last.out.best, Rows(last.read)[last.out.best_idx])
        /\ SameValues(scripts[ScriptFile(last.strategy, "best_return")].values,
                      Rows(last.read)[last.out.best_idx])

C4_Witness ==
    /\ Produced
    /\ last.out.best_idx = 2
    /\ \E j \in 3..Len(last.read.text) :
          /\ Rows(last.read)[j]["total_return_pct"] = Rows(last.read)[2]["total_return_pct"]
          /\ Rows(last.read)[j]["take_profit"] # Rows(last.read)[2]["take_profit"]

(* row i scores at least as much as row j, and more when strict *)
ScoreAtLeast(rows, i, j, strict) ==
    LET ni == rows[i]["profit_factor"].v * rows[i]["win_rate"].v
        nj == rows[j]["profit_factor"].v * rows[j]["win_rate"].v
        di == rows[i]["max_drawdown_pct"].v + 10
        dj == rows[j]["max_drawdown_pct"].v + 10
    IN  IF strict THEN nj * di < ni * dj ELSE nj * di <= ni * dj

ScoreDefined(row) ==
    /\ ~row["profit_factor"].nan /\ ~row["win_rate"].nan /\ ~row["max_drawdown_pct"].nan
    /\ row["max_drawdown_pct"].v + 10 > 0

(* C5: whenever suggestions are computed from a History of 3 rows or more,
   the score profit_factor * win_rate / (max_drawdown_pct + 0.1) is defined
   for every row (the divisor is never zero), and best_risk_adjusted_params
   are the parameters of the first row with the maximal score. *)
C5_RiskAdjustedDefinedAndFirstMaximum ==
    (last.suggested /\ Len(last.read.text) >= 3) =>
        /\ \A i \in 1..Len(last.read.text) :
              Rows(last.read)[i]["max_drawdown_pct"].v + 10 # 0
        /\ Produced =>
              /\ last.out.risk_idx \in 1..Len(last.read.text)
              /\ SameValues(last.out.risk, Rows(last.read)[last.out.risk_idx])
              /\ \A j \in 1..Len(last.read.text) :
                    ScoreDefined(Rows(last.read)[j]) =>
                        ScoreAtLeast(Rows(last.read), last.out.risk_idx, j,
                                     j < last.out.risk_idx)

(* C6: the exploratory parameters are the best-return ones with take_profit
   times 1.1 and stop_loss times 0.9, trailing_stop and trailing_activation
   copied, and the best_return script and the summary, when it is written
   out whole, still carry the unscaled values of the selected row. *)
C6_ExploratoryFromBestReturn ==
    Produced =>
        LET best == Rows(last.read)[last.out.best_idx]
            expl == scripts[ScriptFile(last.strategy, "exploratory")].values
            kept == scripts[ScriptFile(last.strategy, "best_return")].values
            sum == summary[SummaryFile(last.strategy)]
        IN  /\ expl["take_profit"].v * 10 = best["take_profit"].v * 11
            /\ expl["stop_loss"].v * 10 = best["stop_loss"].v * 9
            /\ expl["trailing_stop"].v = best["trailing_stop"].v
            /\ expl["trailing_activation"].v = best["trailing_activation"].v
            /\ SameValues(kept, best)
            /\ sum.state = "written" =>
                  /\ SameValues(sum.best_return, best)
                  /\ sum.exploratory = expl

C6_Witness ==
    /\ Produced
    /\ last.out.stage = "done"
    /\ last.out.best["take_profit"].v = 600
    /\ last.out.best["stop_loss"].v = 200
    /\ scripts[ScriptFile(last.strategy, "exploratory")].values["take_profit"].v = 660
    /\ scripts[ScriptFile(last.strategy, "exploratory")].values["stop_loss"].v = 180
    /\ scripts[ScriptFile(last.strategy, "best_return")].values["take_profit"].v = 600

(* the value the coercion rule gives a raw value: the nested value if there
   is one, else the number, else the parsed number, 0 when none of them *)
Lenient(m, key) ==
    IF key \notin DOMAIN m THEN [nan |-> FALSE, v |-> 0]
    ELSE LET t == IF m[key].t = "dictv" THEN m[key].inner ELSE m[key].t
         IN  CASE t \in {"num", "str"} -> [nan |-> FALSE, v |-> m[key].v]
               [] t = "nanstr" -> [nan |-> TRUE, v |-> 0]
               [] OTHER -> [nan |-> FALSE, v |-> 0]

(* C7: whatever the raw value under a recognized key,
   update_optimization_history does not raise and appends exactly one row,
   whose field is what the lenient coercion rule gives. *)
C7_LenientCoercion ==
    last.called =>
        /\ last.raised = ""
        /\ last.appended
        /\ Len(Stored(last.strategy).text) = Len(last.before.text) + 1
        /\ \A c \in ColumnSet :
              Rows(Stored(last.strategy))[Len(Stored(last.strategy).text)][c]
                 = Lenient(MappingOf(c, last.body.metrics, last.body.parameters), c)

(* C8: generate_visualization is invoked only on a History of 5 rows or
   more, and whether it succeeds or fails, a request that computes
   suggestions from 3 rows or more leaves the three scripts and the summary
   and ends in success. *)
C8_VisualizationBestEffort ==
    last.suggested =>
        /\ last.out.vizCalled => Len(last.read.text) >= 5
        /\ Len(last.read.text) >= 3 =>
              /\ ScriptsWritten(last.strategy)
              /\ summary[SummaryFile(last.strategy)].state = "written"
              /\ last.status = 200

OwnObservationRead ==
    /\ Len(last.read.text) = Len(last.before.text) + 1
    /\ last.read = Stored(last.strategy)
    /\ \A c \in ColumnSet : Rows(last.read)[Len(last.read.text)][c] = Num(last.row[c])

(* C9, as claimed: every request with a non-empty body, whatever its metrics
   and parameters mappings, appends one Observation and then computes
   suggestions from a History that holds it. *)
C9_EveryRequestAppendsThenSuggests ==
    (last.status # 0 /\ last.body.nonempty) =>
        /\ last.appended
        /\ last.suggested
        /\ OwnObservationRead

(* C9, amended: with requests handled one at a time, a request with a
   non-empty body whose metrics and parameters mappings are both non-empty
   calls update_optimization_history once; when the call returns it has
   appended exactly one Observation and exactly one suggestion computation
   follows, on a History that holds it; when the call raises nothing is
   appended, no suggestion is computed and the response is an error.  A
   request whose metrics or parameters mapping is empty appends nothing and
   computes no suggestion: it only writes the sample script and succeeds. *)
C9_AppendThenSuggestWhenBothPresent ==
    (last.status # 0 /\ last.body.nonempty) =>
        IF DOMAIN last.body.metrics # {} /\ DOMAIN last.body.parameters # {}
        THEN /\ last.called
             /\ last.appended <=> last.where # "update_optimization_history"
             /\ last.suggested <=> last.appended
             /\ last.appended => OwnObservationRead
             /\ ~last.appended =>
                   /\ Stored(last.strategy) = last.before
                   /\ last.status = 500
        ELSE /\ ~last.called /\ ~last.appended /\ ~last.suggested
             /\ Stored(last.strategy) = last.before
             /\ sample[SampleFile(last.strategy)]
             /\ last.status = 200

C9_Witness ==
    /\ last.body.nonempty
    /\ last.appended /\ last.suggested
    /\ Len(last.before.text) >= 1
    /\ Len(last.read.text) = Len(last.before.text) + 1

ArtifactsOf(s, h, sc, su, sa, ch) ==
    <<h[HistoryFile(s)], [l \in Labels |-> sc[ScriptFile(s, l)]], su[SummaryFile(s)],
      sa[SampleFile(s)], {k \in ChartKinds : ChartFile(s, k) \in ch}>>

(* a step of a request for one strategy leaves every file of the others *)
C10_Frame ==
    \A b \in StrategyNames :
        b # actor' =>
            ArtifactsOf(b, hist', scripts', summary', sample', charts')
                = ArtifactsOf(b, hist, scripts, summary, sample, charts)

(* a strategy whose update calls never overlapped one another has the
   History its own requests give when run alone *)
C10_AsAlone ==
    \A s \in StrategyNames :
        (~overlap[s] /\ \A t \in Threads : ~InUpdate(t, s)) => Stored(s) = alone[s]

(* C10: a step of an append or of a suggestion computation for a strategy
   leaves the History, scripts and summary of every other strategy
   unchanged, and under any interleaving of requests for distinct strategy
   names each strategy's History is the one its own requests give alone. *)
C10_CrossStrategyIndependence == [][C10_Frame /\ C10_AsAlone']_vars

C10_Witness ==
    /\ \E t, u \in Threads :
          /\ StrategyOf(req[t]) = "A" /\ pc[t] = "write"
          /\ StrategyOf(req[u]) = "B" /\ pc[u] = "suggest"
    /\ ~overlap["A"] /\ ~overlap["B"]
    /\ Len(Stored("B").text) = 1
    /\ ~Stored("A").exists

===========================================================================
